---- MODULE Spec2Model ----
(***************************************************************************)
(* Model of LP1.py: an archiver/extractor that dispatches on the file name *)
(* suffix to one of four formats (raw zstd, raw bz2, tar+zstd, tar+bz2).   *)
(*                                                                         *)
(* Strings are sequences of ASCII codes, byte strings are sequences of     *)
(* naturals, a path is a sequence of names (its components below the       *)
(* working directory), and the file system is a function from the paths    *)
(* that exist to nodes.                                                     *)
(***************************************************************************)
EXTENDS Integers, Sequences, FiniteSets, TLC

(***************************************************************************)
(* Bounds of the model.                                                    *)
(***************************************************************************)
\* number of archive/extract commands run one after another
MaxOps == 2
\* largest byte value used in the contents of the initial files
MaxByte == 1
\* block size of the modelled zstd frame format (input bytes per block)
BlockSize == 3000
\* data lengths tried around each multiple of chunk_size: k*chunk_size + d, |d| <= MaxDelta
MaxDelta == 1
\* number of whole windows tried
MaxWindows == 2
\* number of different byte patterns tried per length
MaxSeed == 2
\* number of pieces a tested file name is built from
MaxPieces == 3

Min(a, b) == IF a <= b THEN a ELSE b

(***************************************************************************)
(* Strings (str): lower() and endswith().                                  *)
(***************************************************************************)
lower_char(c) == IF c >= 65 /\ c <= 90 THEN c + 32 ELSE c

lower(s) == [i \in 1..Len(s) |-> lower_char(s[i])]

endswith(s, suffix) ==
    /\ Len(s) >= Len(suffix)
    /\ SubSeq(s, Len(s) - Len(suffix) + 1, Len(s)) = suffix

\* ".tar.zst"
s_tar_zst == <<46, 116, 97, 114, 46, 122, 115, 116>>
\* ".tar.bz2"
s_tar_bz2 == <<46, 116, 97, 114, 46, 98, 122, 50>>
\* ".zst"
s_zst == <<46, 122, 115, 116>>
\* ".bz2"
s_bz2 == <<46, 98, 122, 50>>

(***************************************************************************)
(* Paths (pathlib.Path): name, parent, stem, joining.                      *)
(***************************************************************************)
path_name(p) == IF p = <<>> THEN <<>> ELSE p[Len(p)]

path_parent(p) == IF p = <<>> THEN <<>> ELSE SubSeq(p, 1, Len(p) - 1)

IsPrefix(p, q) == Len(p) <= Len(q) /\ SubSeq(q, 1, Len(p)) = p

relative_to(p, base) == SubSeq(p, Len(base) + 1, Len(p))

\* index of the last "." of a name, 0 when there is none (str.rfind + 1)
rfind_dot(n) ==
    LET I == {i \in 1..Len(n) : n[i] = 46}
    IN  IF I = {} THEN 0 ELSE CHOOSE i \in I : \A j \in I : j <= i

\* Path.stem: the name without its last suffix; a stem must keep at least
\* one character that is not a dot, otherwise the whole name is the stem.
path_stem(n) ==
    LET i == rfind_dot(n)
    IN  IF i # 0 /\ (\E j \in 1..(i - 1) : n[j] # 46)
        THEN SubSeq(n, 1, i - 1)
        ELSE n

(***************************************************************************)
(* File system.  fs[p] is the node at path p; <<>> is the working          *)
(* directory.                                                               *)
(***************************************************************************)
DirNode == [kind |-> "dir", data |-> <<>>]

FileNode(d) == [kind |-> "file", data |-> d]

exists(f, p) == p \in DOMAIN f

is_dir(f, p) == p \in DOMAIN f /\ f[p].kind = "dir"

is_file(f, p) == p \in DOMAIN f /\ f[p].kind = "file"

\* Path.read_bytes: fails on a missing path and on a directory
read_bytes(f, p) ==
    IF is_file(f, p)
    THEN [ok |-> TRUE, data |-> f[p].data]
    ELSE [ok |-> FALSE, data |-> <<>>]

\* Path.write_bytes / open(p, "wb"): creates or truncates the file; fails
\* when the parent is not an existing directory or p is a directory
write_bytes(f, p, d) ==
    IF p # <<>> /\ is_dir(f, path_parent(p)) /\ ~is_dir(f, p)
    THEN [ok |-> TRUE, fs |-> [q \in (DOMAIN f) \cup {p} |-> IF q = p THEN FileNode(d) ELSE f[q]]]
    ELSE [ok |-> FALSE, fs |-> f]

\* the proper ancestors of p and p itself, the working directory excluded
Ancestors(p) == {SubSeq(p, 1, k) : k \in 1..Len(p)}

\* Path.mkdir(parents=True, exist_ok=True): creates p and its missing
\* parents; raises when p or one of its parents exists and is not a directory
mkdir_parents(f, p) ==
    IF \E q \in Ancestors(p) : is_file(f, q)
    THEN [ok |-> FALSE, fs |-> f]
    ELSE [ok |-> TRUE, fs |-> [q \in (DOMAIN f) \cup Ancestors(p) |-> IF q \in DOMAIN f THEN f[q] ELSE DirNode]]

\* a set of paths as a sequence, shorter paths first (a parent before its children)
RECURSIVE SetToSeq(_)
SetToSeq(S) ==
    IF S = {}
    THEN <<>>
    ELSE LET x == CHOOSE y \in S : \A z \in S : Len(y) <= Len(z)
         IN  <<x>> \o SetToSeq(S \ {x})

\* the regular files found by os.walk(path), in walk order
walk_files(f, path) == SetToSeq({p \in DOMAIN f : is_file(f, p) /\ IsPrefix(path, p) /\ p # path})

\* count_files
count_files(f, path) == IF is_file(f, path) THEN 1 ELSE Len(walk_files(f, path))

(***************************************************************************)
(* Format dispatch on the lower-cased file name.                           *)
(***************************************************************************)
NoFormat == [archive_type |-> "none", compression |-> "none"]

\* archive_format with the short suffixes tested before the long ones
archive_format_short_first(dst_name) ==
    IF endswith(dst_name, s_zst)
    THEN [archive_type |-> "single", compression |-> "zst"]
    ELSE IF endswith(dst_name, s_bz2)
    THEN [archive_type |-> "single", compression |-> "bz2"]
    ELSE IF endswith(dst_name, s_tar_zst)
    THEN [archive_type |-> "tar", compression |-> "zst"]
    ELSE IF endswith(dst_name, s_tar_bz2)
    THEN [archive_type |-> "tar", compression |-> "bz2"]
    ELSE NoFormat

\* archive, lines 121-135, applied to dst.name.lower()
archive_format(dst_name) ==
    IF endswith(dst_name, s_tar_zst) \/ endswith(dst_name, s_tar_bz2)
    THEN IF endswith(dst_name, s_tar_zst)
         THEN [archive_type |-> "tar", compression |-> "zst"]
         ELSE [archive_type |-> "tar", compression |-> "bz2"]
    ELSE IF endswith(dst_name, s_zst)
    THEN [archive_type |-> "single", compression |-> "zst"]
    ELSE IF endswith(dst_name, s_bz2)
    THEN [archive_type |-> "single", compression |-> "bz2"]
    ELSE NoFormat

\* extract, lines 219-233, applied to archive_path.name.lower()
extract_format(archive_name) ==
    IF endswith(archive_name, s_tar_zst) \/ endswith(archive_name, s_tar_bz2)
    THEN IF endswith(archive_name, s_tar_zst)
         THEN [archive_type |-> "tar", compression |-> "zst"]
         ELSE [archive_type |-> "tar", compression |-> "bz2"]
    ELSE IF endswith(archive_name, s_zst)
    THEN [archive_type |-> "single", compression |-> "zst"]
    ELSE IF endswith(archive_name, s_bz2)
    THEN [archive_type |-> "single", compression |-> "bz2"]
    ELSE NoFormat

(***************************************************************************)
(* The tar container (tarfile).  A member is a record of its type, its     *)
(* name (a relative path) and its bytes.  On the wire a member is          *)
(*   typeflag, length of the name, the name with "/" between components,   *)
(*   length of the data, the data                                           *)
(* and the archive ends with a zero.                                        *)
(***************************************************************************)
REGTYPE == 48
DIRTYPE == 53

RECURSIVE join_name(_)
join_name(p) ==
    IF Len(p) = 0 THEN <<>>
    ELSE IF Len(p) = 1 THEN p[1]
    ELSE p[1] \o <<47>> \o join_name(Tail(p))

RECURSIVE split_name(_)
split_name(s) ==
    LET I == {i \in 1..Len(s) : s[i] = 47}
    IN  IF I = {}
        THEN IF s = <<>> THEN <<>> ELSE <<s>>
        ELSE LET i == CHOOSE j \in I : \A k \in I : j <= k
             IN  (IF i = 1 THEN <<>> ELSE <<SubSeq(s, 1, i - 1)>>) \o split_name(SubSeq(s, i + 1, Len(s)))

TarMember(type, name, data) == [type |-> type, name |-> name, data |-> data]

RECURSIVE tar_pack(_)
tar_pack(members) ==
    IF members = <<>>
    THEN <<0>>
    ELSE LET m == Head(members)
             n == join_name(m.name)
         IN  <<m.type, Len(n)>> \o n \o <<Len(m.data)>> \o m.data \o tar_pack(Tail(members))

\* tarfile.open(mode="r"): the members of a byte stream, or ReadError
RECURSIVE tar_unpack(_)
tar_unpack(b) ==
    IF b = <<0>>
    THEN [ok |-> TRUE, members |-> <<>>]
    ELSE IF Len(b) < 3 \/ b[1] \notin {REGTYPE, DIRTYPE}
    THEN [ok |-> FALSE, members |-> <<>>]
    ELSE IF Len(b) < 3 + b[2]
    THEN [ok |-> FALSE, members |-> <<>>]
    ELSE LET n    == SubSeq(b, 3, 2 + b[2])
             dlen == b[3 + b[2]]
         IN  IF Len(b) < 3 + b[2] + dlen
             THEN [ok |-> FALSE, members |-> <<>>]
             ELSE LET d    == SubSeq(b, 4 + b[2], 3 + b[2] + dlen)
                      rest == tar_unpack(SubSeq(b, 4 + b[2] + dlen, Len(b)))
                  IN  [ok |-> rest.ok,
                       members |-> IF rest.ok THEN <<TarMember(b[1], split_name(n), d)>> \o rest.members ELSE <<>>]

\* create_tar_archive: a file becomes one member named by its base name; a
\* directory becomes one member per walked file, named relative to src
create_tar_archive(f, src) ==
    IF is_file(f, src)
    THEN <<TarMember(REGTYPE, <<path_name(src)>>, f[src].data)>>
    ELSE LET files == walk_files(f, src)
         IN  [i \in 1..Len(files) |-> TarMember(REGTYPE, relative_to(files[i], src), f[files[i]].data)]

\* tar.add(src, arcname=src.name) of lines 162 and 167: src itself under
\* its base name and, recursively, everything below it, directories
\* included; the archive being written is skipped
tar_add_recursive(f, src, skip) ==
    LET nodes == SetToSeq({p \in DOMAIN f : IsPrefix(src, p) /\ p # skip})
    IN  [i \in 1..Len(nodes) |->
            TarMember(IF is_dir(f, nodes[i]) THEN DIRTYPE ELSE REGTYPE,
                      <<path_name(src)>> \o relative_to(nodes[i], src),
                      f[nodes[i]].data)]

\* tar.extract(member, path=dest_dir): parents are created as needed; fails
\* when a parent is a file or the target has the other type
tar_extract(f, m, dest_dir) ==
    LET target == dest_dir \o m.name
        made   == mkdir_parents(f, path_parent(target))
    IN  IF m.name = <<>> \/ ~made.ok
        THEN [ok |-> FALSE, fs |-> made.fs]
        ELSE IF m.type = DIRTYPE
        THEN mkdir_parents(made.fs, target)
        ELSE write_bytes(made.fs, target, m.data)

\* the members extracted in order, stopping at the first failure; done is
\* the number of members extracted
RECURSIVE tar_extract_all(_, _, _, _)
tar_extract_all(f, members, dest_dir, done) ==
    IF members = <<>>
    THEN [ok |-> TRUE, fs |-> f, done |-> done]
    ELSE LET r == tar_extract(f, Head(members), dest_dir)
         IN  IF r.ok
             THEN tar_extract_all(r.fs, Tail(members), dest_dir, done + 1)
             ELSE [ok |-> FALSE, fs |-> r.fs, done |-> done]

(***************************************************************************)
(* The zstd codec (compression.zstd).  A frame is the magic number         *)
(* followed by blocks  last-flag, size, bytes ; the streaming compressor   *)
(* buffers its input and emits a block whenever BlockSize bytes are        *)
(* buffered, and flush() ends the frame with the last block.               *)
(***************************************************************************)
ZSTD_MAGIC == 40

RECURSIVE zstd_blocks(_, _)
zstd_blocks(b, n) ==
    IF n = 0
    THEN <<>>
    ELSE <<0, BlockSize>> \o SubSeq(b, 1, BlockSize) \o zstd_blocks(SubSeq(b, BlockSize + 1, Len(b)), n - 1)

\* zstd.ZstdCompressor()
ZstdCompressor == [buf |-> <<>>, started |-> FALSE]

\* compressor.compress(chunk): the new compressor state and the bytes returned
ZstdCompressor_compress(c, chunk) ==
    LET b == c.buf \o chunk
        n == Len(b) \div BlockSize
    IN  [c   |-> [buf |-> SubSeq(b, n * BlockSize + 1, Len(b)), started |-> c.started \/ n > 0],
         out |-> (IF ~c.started /\ n > 0 THEN <<ZSTD_MAGIC>> ELSE <<>>) \o zstd_blocks(b, n)]

\* compressor.flush()
ZstdCompressor_flush(c) ==
    (IF c.started THEN <<>> ELSE <<ZSTD_MAGIC>>) \o <<1, Len(c.buf)>> \o c.buf

\* zstd.ZstdDecompressor()
ZstdDecompressor == [phase |-> "magic", buf |-> <<>>]

\* the decoder run over the buffered input as far as it goes
RECURSIVE zstd_decode(_, _)
zstd_decode(d, out) ==
    IF d.phase = "eof"
    THEN [ok |-> TRUE, d |-> d, out |-> out]
    ELSE IF d.phase = "magic"
    THEN IF d.buf = <<>>
         THEN [ok |-> TRUE, d |-> d, out |-> out]
         ELSE IF d.buf[1] # ZSTD_MAGIC
         THEN [ok |-> FALSE, d |-> d, out |-> out]
         ELSE zstd_decode([phase |-> "block", buf |-> Tail(d.buf)], out)
    ELSE IF Len(d.buf) < 2
    THEN [ok |-> TRUE, d |-> d, out |-> out]
    ELSE IF d.buf[1] \notin {0, 1}
    THEN [ok |-> FALSE, d |-> d, out |-> out]
    ELSE IF Len(d.buf) < 2 + d.buf[2]
    THEN [ok |-> TRUE, d |-> d, out |-> out]
    ELSE zstd_decode([phase |-> IF d.buf[1] = 1 THEN "eof" ELSE "block",
                      buf   |-> SubSeq(d.buf, 3 + d.buf[2], Len(d.buf))],
                     out \o SubSeq(d.buf, 3, 2 + d.buf[2]))

\* decompressor.decompress(chunk): ZstdError on invalid data, EOFError when
\* the frame has already ended
ZstdDecompressor_decompress(d, chunk) ==
    IF d.phase = "eof"
    THEN [ok |-> FALSE, d |-> d, out |-> <<>>]
    ELSE zstd_decode([d EXCEPT !.buf = @ \o chunk], <<>>)

(***************************************************************************)
(* The bz2 codec: one-shot compress and decompress.  A stream is the       *)
(* magic number, the length and the bytes.                                 *)
(***************************************************************************)
BZ2_MAGIC == 66

bz2_compress(data) == <<BZ2_MAGIC, Len(data)>> \o data

\* bz2.decompress: empty input gives empty output; invalid or truncated
\* data is an error
bz2_decompress(b) ==
    IF b = <<>>
    THEN [ok |-> TRUE, data |-> <<>>]
    ELSE IF Len(b) < 2 \/ b[1] # BZ2_MAGIC
    THEN [ok |-> FALSE, data |-> <<>>]
    ELSE IF Len(b) < 2 + b[2]
    THEN [ok |-> FALSE, data |-> <<>>]
    ELSE [ok |-> TRUE, data |-> SubSeq(b, 3, 2 + b[2])]

(***************************************************************************)
(* compress_with_zstd, compress_with_bz2, decompress_zstd, decompress_bz2. *)
(* Each gives the bytes produced, the (cur, total) pairs passed to         *)
(* print_progress, and for the compressors the windows fed to the codec.   *)
(***************************************************************************)
chunk_size == 8192

\* chunk_at with the window one byte short: data[i:i + chunk_size - 1]
chunk_at_short(data, i) == SubSeq(data, i + 1, Min(i + chunk_size - 1, Len(data)))

\* data[i:i + chunk_size]
chunk_at(data, i) == SubSeq(data, i + 1, Min(i + chunk_size, Len(data)))

\* the loop of lines 52-55, from offset i on
RECURSIVE compress_loop(_, _, _, _, _, _)
compress_loop(data, i, c, compressed, log, fed) ==
    IF i >= Len(data)
    THEN [c |-> c, compressed |-> compressed, log |-> log, fed |-> fed]
    ELSE LET chunk == chunk_at(data, i)
             r     == ZstdCompressor_compress(c, chunk)
         IN  compress_loop(data, i + chunk_size, r.c, compressed \o r.out,
                           Append(log, <<Min(i + chunk_size, Len(data)), Len(data)>>),
                           Append(fed, chunk))

compress_with_zstd(data, show_progress) ==
    IF show_progress
    THEN LET l == compress_loop(data, 0, ZstdCompressor, <<>>, <<>>, <<>>)
         IN  [out |-> l.compressed \o ZstdCompressor_flush(l.c),
              log |-> Append(l.log, <<Len(data), Len(data)>>),
              fed |-> l.fed]
    ELSE LET r == ZstdCompressor_compress(ZstdCompressor, data)
         IN  [out |-> r.out \o ZstdCompressor_flush(r.c), log |-> <<>>, fed |-> <<data>>]

compress_with_bz2(data, show_progress) ==
    IF show_progress
    THEN [out |-> bz2_compress(data), log |-> <<<<Len(data), Len(data)>>>>, fed |-> <<data>>]
    ELSE [out |-> bz2_compress(data), log |-> <<>>, fed |-> <<data>>]

\* the loop of lines 87-90, from offset i on; it stops at the first error
RECURSIVE decompress_loop(_, _, _, _, _)
decompress_loop(data, i, d, decompressed, log) ==
    IF i >= Len(data)
    THEN [ok |-> TRUE, decompressed |-> decompressed, log |-> log]
    ELSE LET r == ZstdDecompressor_decompress(d, chunk_at(data, i))
         IN  IF ~r.ok
             THEN [ok |-> FALSE, decompressed |-> decompressed, log |-> log]
             ELSE decompress_loop(data, i + chunk_size, r.d, decompressed \o r.out,
                                  Append(log, <<Min(i + chunk_size, Len(data)), Len(data)>>))

decompress_zstd(f, input_path, show_progress) ==
    LET rd == read_bytes(f, input_path)
    IN  IF ~rd.ok
        THEN [ok |-> FALSE, data |-> <<>>, log |-> <<>>]
        ELSE IF show_progress
        THEN LET l == decompress_loop(rd.data, 0, ZstdDecompressor, <<>>, <<>>)
             IN  [ok   |-> l.ok,
                  data |-> l.decompressed,
                  log  |-> IF l.ok THEN Append(l.log, <<Len(rd.data), Len(rd.data)>>) ELSE l.log]
        ELSE LET r == ZstdDecompressor_decompress(ZstdDecompressor, rd.data)
             IN  [ok |-> r.ok, data |-> r.out, log |-> <<>>]

decompress_bz2(f, input_path, show_progress) ==
    LET rd == read_bytes(f, input_path)
        r  == bz2_decompress(rd.data)
    IN  IF ~rd.ok \/ ~r.ok
        THEN [ok |-> FALSE, data |-> <<>>, log |-> <<>>]
        ELSE [ok   |-> TRUE,
              data |-> r.data,
              log  |-> IF show_progress THEN <<<<Len(rd.data), Len(rd.data)>>>> ELSE <<>>]

(***************************************************************************)
(* archive and extract.  Each gives the file system it leaves, the error   *)
(* it printed on the error stream (err), the exception that left it        *)
(* (raised), its return value (ret), the (cur, total) pairs it passed to   *)
(* print_progress (log) and the format it dispatched to.                   *)
(***************************************************************************)
Outcome(f, err, raised, ret, log, fmt) ==
    [fs |-> f, err |-> err, raised |-> raised, ret |-> ret, log |-> log,
     archive_type |-> fmt.archive_type, compression |-> fmt.compression]

\* lines 186-203: the value returned once the archive is written
archive_return(f, dst, benchmark) == IF exists(f, dst) /\ benchmark THEN "elapsed" ELSE "None"

\* line 115
archive_src_missing(f, src) == ~exists(f, src)

\* directory_requires_tar testing is_file in place of is_dir
directory_requires_tar_is_file(f, src, fmt) == is_file(f, src) /\ fmt.archive_type # "tar"

\* line 137
directory_requires_tar(f, src, fmt) == is_dir(f, src) /\ fmt.archive_type # "tar"

\* lines 142-167: the tar branch of the try block
archive_tar(f, src, dst, progress, benchmark, fmt) ==
    LET total_files == count_files(f, src)
        log_build   == IF progress THEN <<<<total_files, total_files>>>> ELSE <<>>
        data        == tar_pack(create_tar_archive(f, src))
    IN  IF fmt.compression = "zst"
        THEN LET c == compress_with_zstd(data, progress)
                 w == write_bytes(f, dst, c.out)
             IN  IF w.ok
                 THEN Outcome(w.fs, "none", "none", archive_return(w.fs, dst, benchmark), log_build \o c.log, fmt)
                 ELSE Outcome(w.fs, "ArchiveError", "none", "None", log_build \o c.log, fmt)
        ELSE LET log_open == log_build \o (IF progress THEN <<<<0, 1>>>> ELSE <<>>)
                 opened   == write_bytes(f, dst, <<>>)
                 members  == tar_add_recursive(opened.fs, src, dst)
                 w        == write_bytes(opened.fs, dst, bz2_compress(tar_pack(members)))
             IN  IF opened.ok
                 THEN Outcome(w.fs, "none", "none", archive_return(w.fs, dst, benchmark),
                              log_open \o (IF progress THEN <<<<1, 1>>>> ELSE <<>>), fmt)
                 ELSE Outcome(f, "ArchiveError", "none", "None", log_open, fmt)

\* lines 169-184: the single-file branch of the try block
archive_single(f, src, dst, progress, benchmark, fmt) ==
    LET total_size == Len(f[src].data)
        log_read   == IF progress THEN <<<<0, total_size>>, <<total_size, total_size>>>> ELSE <<>>
        data       == f[src].data
        c          == IF fmt.compression = "zst"
                      THEN compress_with_zstd(data, progress)
                      ELSE compress_with_bz2(data, progress)
        w          == write_bytes(f, dst, c.out)
    IN  IF w.ok
        THEN Outcome(w.fs, "none", "none", archive_return(w.fs, dst, benchmark), log_read \o c.log, fmt)
        ELSE Outcome(w.fs, "ArchiveError", "none", "None", log_read \o c.log, fmt)

archive(f, src, dst, progress, benchmark) ==
    IF archive_src_missing(f, src)
    THEN Outcome(f, "SourceNotFound", "none", "None", <<>>, NoFormat)
    ELSE LET fmt == archive_format(lower(path_name(dst)))
         IN  IF fmt.archive_type = "none"
             THEN Outcome(f, "UnsupportedFormat", "none", "None", <<>>, fmt)
             ELSE IF directory_requires_tar(f, src, fmt)
             THEN Outcome(f, "DirectoryRequiresTar", "none", "None", <<>>, fmt)
             ELSE IF fmt.archive_type = "tar"
             THEN archive_tar(f, src, dst, progress, benchmark, fmt)
             ELSE archive_single(f, src, dst, progress, benchmark, fmt)

\* lines 293-300
extract_return(benchmark) == IF benchmark THEN "elapsed" ELSE "None"

\* extract_archive_missing testing the archive's directory in place of the archive
extract_archive_missing_parent(f, archive_path) == ~exists(f, path_parent(archive_path))

\* line 213
extract_archive_missing(f, archive_path) == ~exists(f, archive_path)

\* lines 246-252 and 267-273: the members extracted one by one, in progress
\* mode each followed by print_progress(i + 1 + base, total)
extract_members(f, members, dest_dir, progress, base, total) ==
    LET ex == tar_extract_all(f, members, dest_dir, 0)
    IN  [ok  |-> ex.ok,
         fs  |-> ex.fs,
         log |-> IF progress THEN [i \in 1..ex.done |-> <<i + base, total>>] ELSE <<>>]

\* lines 239-252
extract_tar_bz2(f, archive_path, dest_dir, progress, benchmark, fmt) ==
    LET log_open == IF progress THEN <<<<0, 1>>>> ELSE <<>>
        rd       == read_bytes(f, archive_path)
        dec      == bz2_decompress(rd.data)
        tar      == tar_unpack(dec.data)
        n        == Len(tar.members)
        ex       == extract_members(f, tar.members, dest_dir, progress, 0, n)
    IN  IF ~rd.ok \/ ~dec.ok \/ ~tar.ok
        THEN Outcome(f, "ExtractError", "none", "None", log_open, fmt)
        ELSE IF ~ex.ok
        THEN Outcome(ex.fs, "ExtractError", "none", "None", log_open \o ex.log, fmt)
        ELSE Outcome(ex.fs, "none", "none", extract_return(benchmark), log_open \o ex.log, fmt)

\* lines 254-273
extract_tar_zst(f, archive_path, dest_dir, progress, benchmark, fmt) ==
    LET log_open == IF progress THEN <<<<0, 1>>>> ELSE <<>>
        dec      == decompress_zstd(f, archive_path, progress)
        log_tar  == log_open \o dec.log \o (IF progress THEN <<<<1, 2>>>> ELSE <<>>)
        tar      == tar_unpack(dec.data)
        n        == Len(tar.members)
        ex       == extract_members(f, tar.members, dest_dir, progress, n, n * 2)
    IN  IF ~dec.ok
        THEN Outcome(f, "ExtractError", "none", "None", log_open \o dec.log, fmt)
        ELSE IF ~tar.ok
        THEN Outcome(f, "ExtractError", "none", "None", log_tar, fmt)
        ELSE IF ~ex.ok
        THEN Outcome(ex.fs, "ExtractError", "none", "None", log_tar \o ex.log, fmt)
        ELSE Outcome(ex.fs, "none", "none", extract_return(benchmark), log_tar \o ex.log, fmt)

\* lines 279-280
output_path(archive_path, dest_dir) == dest_dir \o <<path_stem(path_name(archive_path))>>

\* lines 275-291
extract_single(f, archive_path, dest_dir, progress, benchmark, fmt) ==
    LET log_open == IF progress THEN <<<<0, 1>>>> ELSE <<>>
        dec      == IF fmt.compression = "zst"
                    THEN decompress_zstd(f, archive_path, progress)
                    ELSE decompress_bz2(f, archive_path, progress)
        w        == write_bytes(f, output_path(archive_path, dest_dir), dec.data)
    IN  IF ~dec.ok
        THEN Outcome(f, "ExtractError", "none", "None", log_open \o dec.log, fmt)
        ELSE IF ~w.ok
        THEN Outcome(f, "ExtractError", "none", "None", log_open \o dec.log, fmt)
        ELSE Outcome(w.fs, "none", "none", extract_return(benchmark),
                     log_open \o dec.log \o (IF progress THEN <<<<1, 1>>>> ELSE <<>>), fmt)

extract(f, archive_path, dest_dir, progress, benchmark) ==
    IF extract_archive_missing(f, archive_path)
    THEN Outcome(f, "SourceNotFound", "none", "None", <<>>, NoFormat)
    ELSE LET fmt  == extract_format(lower(path_name(archive_path)))
             made == mkdir_parents(f, dest_dir)
         IN  IF fmt.archive_type = "none"
             THEN Outcome(f, "UnsupportedFormat", "none", "None", <<>>, fmt)
             ELSE IF ~made.ok
             THEN Outcome(f, "none", "FileExistsError", "NoReturn", <<>>, fmt)
             ELSE IF fmt.archive_type = "tar" /\ fmt.compression = "bz2"
             THEN extract_tar_bz2(made.fs, archive_path, dest_dir, progress, benchmark, fmt)
             ELSE IF fmt.archive_type = "tar"
             THEN extract_tar_zst(made.fs, archive_path, dest_dir, progress, benchmark, fmt)
             ELSE extract_single(made.fs, archive_path, dest_dir, progress, benchmark, fmt)

(***************************************************************************)
(* The commands run and the files they run on.                             *)
(***************************************************************************)
\* "f.txt"
n_f_txt == <<102, 46, 116, 120, 116>>
\* "src"
n_src == <<115, 114, 99>>
\* "a"
n_a == <<97>>
\* "b.txt"
n_b_txt == <<98, 46, 116, 120, 116>>
\* "c"
n_c == <<99>>
\* "d.txt"
n_d_txt == <<100, 46, 116, 120, 116>>
\* "e"
n_e == <<101>>
\* "bad.zst"
n_bad_zst == <<98, 97, 100, 46, 122, 115, 116>>
\* "data.xyz"
n_data_xyz == <<100, 97, 116, 97, 46, 120, 121, 122>>
\* "n"
n_missing == <<110>>
\* "o.zst"
n_o_zst == <<111, 46, 122, 115, 116>>
\* "o.bz2"
n_o_bz2 == <<111, 46, 98, 122, 50>>
\* "o.tar.zst"
n_o_tar_zst == <<111, 46, 116, 97, 114, 46, 122, 115, 116>>
\* "O.TAR.BZ2"
n_O_TAR_BZ2 == <<79, 46, 84, 65, 82, 46, 66, 90, 50>>
\* ".zst"
n_dot_zst == <<46, 122, 115, 116>>
\* "o.xyz"
n_o_xyz == <<111, 46, 120, 121, 122>>
\* "D"
n_D == <<68>>
\* "E"
n_E == <<69>>

\* contents of the files the runs start with
Contents == {<<>>} \cup {<<x>> : x \in 0..MaxByte} \cup {<<x, 255 - x>> : x \in 0..MaxByte}

\* the working directory before the first command: a file f.txt, a tree
\* src/a/b.txt, src/a/c/d.txt, an empty directory e, a file bad.zst that is
\* no zstd frame, and a file data.xyz
StartFS(c) ==
    (<<>> :> DirNode)
    @@ (<<n_f_txt>> :> FileNode(c))
    @@ (<<n_src>> :> DirNode)
    @@ (<<n_src, n_a>> :> DirNode)
    @@ (<<n_src, n_a, n_b_txt>> :> FileNode(c \o <<9>>))
    @@ (<<n_src, n_a, n_c>> :> DirNode)
    @@ (<<n_src, n_a, n_c, n_d_txt>> :> FileNode(c))
    @@ (<<n_e>> :> DirNode)
    @@ (<<n_bad_zst>> :> FileNode(<<9>>))
    @@ (<<n_data_xyz>> :> FileNode(<<7, 7>>))

\* the sources given to archive: a file, a tree, an empty directory, a missing path
Sources == {<<n_f_txt>>, <<n_src>>, <<n_e>>, <<n_missing>>}

\* the destinations given to archive; the last one lies in a missing directory
Destinations ==
    {<<n_o_zst>>, <<n_o_bz2>>, <<n_o_tar_zst>>, <<n_O_TAR_BZ2>>, <<n_dot_zst>>, <<n_o_xyz>>,
     <<n_missing, n_o_zst>>}

\* the archives given to extract
Archives ==
    {<<n_o_zst>>, <<n_o_bz2>>, <<n_o_tar_zst>>, <<n_O_TAR_BZ2>>, <<n_dot_zst>>, <<n_o_xyz>>,
     <<n_bad_zst>>, <<n_data_xyz>>, <<n_missing>>}

\* the destination directories given to extract: a fresh one, a fresh nested
\* one, the working directory, and a path that is a regular file
DestDirs == {<<n_D>>, <<n_D, n_E>>, <<>>, <<n_f_txt>>}

\* names built from up to MaxPieces of these pieces:
\* "x"  ".tar"  ".zst"  ".bz2"  ".TAR"  ".Zst"  ".bZ2"  ".xyz"  "zst"
Pieces ==
    {<<120>>,
     <<46, 116, 97, 114>>,
     <<46, 122, 115, 116>>,
     <<46, 98, 122, 50>>,
     <<46, 84, 65, 82>>,
     <<46, 90, 115, 116>>,
     <<46, 98, 90, 50>>,
     <<46, 120, 121, 122>>,
     <<122, 115, 116>>}


RECURSIVE NamesOf(_)
NamesOf(k) ==
    IF k = 0
    THEN {<<>>}
    ELSE LET shorter == NamesOf(k - 1)
         IN  shorter \cup {n \o q : n \in shorter, q \in Pieces}

TestNames == NamesOf(MaxPieces) \ {<<>>, n_f_txt}

\* the byte strings given to the codecs: lengths around the multiples of
\* chunk_size, bytes that change with the position
TestLengths == {k * chunk_size + d : k \in 0..MaxWindows, d \in (0 - MaxDelta)..MaxDelta} \cap Nat

TestBytes(n, seed) == [i \in 1..n |-> (i * (seed + 1) + seed) % 256]

VARIABLES fs, fs_before, last, prev, nops, cdata, cout

vars == <<fs, fs_before, last, prev, nops, cdata, cout>>

NoOp ==
    [op |-> "none", a |-> <<>>, b |-> <<>>, progress |-> FALSE, benchmark |-> FALSE,
     err |-> "none", raised |-> "none", ret |-> "None", log |-> <<>>,
     archive_type |-> "none", compression |-> "none"]

OpRecord(op, a, b, progress, benchmark, r) ==
    [op |-> op, a |-> a, b |-> b, progress |-> progress, benchmark |-> benchmark,
     err |-> r.err, raised |-> r.raised, ret |-> r.ret, log |-> r.log,
     archive_type |-> r.archive_type, compression |-> r.compression]

NoOutput == [done |-> FALSE, out |-> <<>>, fed |-> <<>>]

NoOutputs == [k \in {"zst", "bz2"} \X BOOLEAN |-> NoOutput]

Init ==
    /\ fs \in {StartFS(c) : c \in Contents}
    /\ fs_before = fs
    /\ last = NoOp
    /\ prev = NoOp
    /\ nops = 0
    /\ cdata = <<>>
    /\ cout = NoOutputs

\* main, lines 343-344: the command  archive <src> <dst> [--progress] [--benchmark]
ArchiveCommand(src, dst, progress, benchmark) ==
    /\ LET r == archive(fs, src, dst, progress, benchmark)
       IN  /\ fs' = r.fs
           /\ last' = OpRecord("archive", src, dst, progress, benchmark, r)
    /\ fs_before' = fs
    /\ prev' = last
    /\ nops' = nops + 1
    /\ UNCHANGED <<cdata, cout>>

\* main, lines 345-346: the command  extract <archive> <destination> [--progress] [--benchmark]
ExtractCommand(archive_path, dest_dir, progress, benchmark) ==
    /\ LET r == extract(fs, archive_path, dest_dir, progress, benchmark)
       IN  /\ fs' = r.fs
           /\ last' = OpRecord("extract", archive_path, dest_dir, progress, benchmark, r)
    /\ fs_before' = fs
    /\ prev' = last
    /\ nops' = nops + 1
    /\ UNCHANGED <<cdata, cout>>

\* commands run one after another on the same working directory
Archive(src, dst, progress, benchmark) == nops < MaxOps /\ ArchiveCommand(src, dst, progress, benchmark)

Extract(archive_path, dest_dir, progress, benchmark) == nops < MaxOps /\ ExtractCommand(archive_path, dest_dir, progress, benchmark)

Next ==
    \/ \E src \in Sources, dst \in Destinations, progress \in BOOLEAN, benchmark \in BOOLEAN :
          Archive(src, dst, progress, benchmark)
    \/ \E archive_path \in Archives, dest_dir \in DestDirs, progress \in BOOLEAN, benchmark \in BOOLEAN :
          Extract(archive_path, dest_dir, progress, benchmark)

Spec == Init /\ [][Next]_vars

(***************************************************************************)
(* One invocation of the program: main runs exactly one command.  The      *)
(* working directory it starts in is the starting one or the one an        *)
(* earlier archive command left.                                           *)
(***************************************************************************)
WorkingDirs ==
    {StartFS(c) : c \in Contents}
    \cup {archive(StartFS(c), src, dst, FALSE, FALSE).fs : c \in Contents, src \in Sources, dst \in Destinations}

InitCommand ==
    /\ fs \in WorkingDirs
    /\ fs_before = fs
    /\ last = NoOp
    /\ prev = NoOp
    /\ nops = 0
    /\ cdata = <<>>
    /\ cout = NoOutputs

NextCommand ==
    \/ \E src \in Sources, dst \in Destinations, progress \in BOOLEAN, benchmark \in BOOLEAN :
          nops = 0 /\ ArchiveCommand(src, dst, progress, benchmark)
    \/ \E archive_path \in Archives, dest_dir \in DestDirs, progress \in BOOLEAN, benchmark \in BOOLEAN :
          nops = 0 /\ ExtractCommand(archive_path, dest_dir, progress, benchmark)

SpecCommand == InitCommand /\ [][NextCommand]_vars

(***************************************************************************)
(* The dispatch over many file names: the working directory holds f.txt    *)
(* and one file with a name of TestNames; f.txt is archived to that name   *)
(* and that name is extracted.                                             *)
(***************************************************************************)
NamedFS(name) ==
    (<<>> :> DirNode)
    @@ (<<n_f_txt>> :> FileNode(<<1>>))
    @@ (<<name>> :> FileNode(compress_with_zstd(<<1>>, FALSE).out))

NamedFiles(f) == {p \in DOMAIN f : Len(p) = 1 /\ p[1] \in TestNames}

InitNames ==
    /\ fs \in {NamedFS(name) : name \in TestNames}
    /\ fs_before = fs
    /\ last = NoOp
    /\ prev = NoOp
    /\ nops = 0
    /\ cdata = <<>>
    /\ cout = NoOutputs

NextNames ==
    \/ \E dst \in NamedFiles(fs), progress \in BOOLEAN : Archive(<<n_f_txt>>, dst, progress, FALSE)
    \/ \E archive_path \in NamedFiles(fs), progress \in BOOLEAN : Extract(archive_path, <<n_D>>, progress, FALSE)

SpecNames == InitNames /\ [][NextNames]_vars

(***************************************************************************)
(* The codec adapters alone: one byte string is compressed with and        *)
(* without progress display, by both codecs.                               *)
(***************************************************************************)
InitCodec ==
    /\ fs = StartFS(<<>>)
    /\ fs_before = fs
    /\ last = NoOp
    /\ prev = NoOp
    /\ nops = 0
    /\ cdata \in {TestBytes(n, seed) : n \in TestLengths, seed \in 0..MaxSeed}
    /\ cout = NoOutputs

CompressZstd(show_progress) ==
    /\ ~cout[<<"zst", show_progress>>].done
    /\ LET r == compress_with_zstd(cdata, show_progress)
       IN  cout' = [cout EXCEPT ![<<"zst", show_progress>>] = [done |-> TRUE, out |-> r.out, fed |-> r.fed]]
    /\ UNCHANGED <<fs, fs_before, last, prev, nops, cdata>>

CompressBz2(show_progress) ==
    /\ ~cout[<<"bz2", show_progress>>].done
    /\ LET r == compress_with_bz2(cdata, show_progress)
       IN  cout' = [cout EXCEPT ![<<"bz2", show_progress>>] = [done |-> TRUE, out |-> r.out, fed |-> r.fed]]
    /\ UNCHANGED <<fs, fs_before, last, prev, nops, cdata>>

NextCodec ==
    \/ \E show_progress \in BOOLEAN : CompressZstd(show_progress)
    \/ \E show_progress \in BOOLEAN : CompressBz2(show_progress)

SpecCodec == InitCodec /\ [][NextCodec]_vars

(***************************************************************************)
(* Properties.                                                             *)
(***************************************************************************)
\* the last k characters of a string, the whole string when it is shorter
LastChars(s, k) == IF Len(s) >= k THEN SubSeq(s, Len(s) - k + 1, Len(s)) ELSE s

\* the format the documentation gives for a lower-cased name
DocumentedFormat(n) ==
    CASE LastChars(n, 8) = s_tar_zst -> [archive_type |-> "tar", compression |-> "zst"]
      [] LastChars(n, 8) = s_tar_bz2 -> [archive_type |-> "tar", compression |-> "bz2"]
      [] LastChars(n, 4) = s_zst /\ LastChars(n, 8) # s_tar_zst -> [archive_type |-> "single", compression |-> "zst"]
      [] LastChars(n, 4) = s_bz2 /\ LastChars(n, 8) # s_tar_bz2 -> [archive_type |-> "single", compression |-> "bz2"]
      [] OTHER -> NoFormat

\* the name the last command dispatched on
DispatchedName == IF last.op = "archive" THEN path_name(last.b) ELSE path_name(last.a)

Succeeded(o) == o.op # "none" /\ o.err = "none" /\ o.raised = "none"

\* the paths that the last command created or changed
Touched == {p \in DOMAIN fs : p \notin DOMAIN fs_before \/ fs[p] # fs_before[p]}

\* the regular files below d with their paths relative to d
TreeUnder(f, d) == {<<relative_to(p, d), f[p].data>> : p \in {q \in DOMAIN f : is_file(f, q) /\ IsPrefix(d, q) /\ q # d}}

\* a source as a set of (relative path, contents): a file under its own name
SourceTree(f, src) == IF is_file(f, src) THEN {<<<<path_name(src)>>, f[src].data>>} ELSE TreeUnder(f, src)

\* the members of a tar archive written with the given compression
MembersOf(data, compression) ==
    IF compression = "zst"
    THEN tar_unpack(ZstdDecompressor_decompress(ZstdDecompressor, data).out)
    ELSE tar_unpack(bz2_decompress(data).data)

RECURSIVE Flatten(_)
Flatten(ss) == IF ss = <<>> THEN <<>> ELSE Head(ss) \o Flatten(Tail(ss))

\* C1: whenever archive or extract dispatches on a name (its source
\* exists), the format it selects for the lower-cased name is the
\* documented one: (tar, zst) for .tar.zst, (tar, bz2) for .tar.bz2,
\* (single, zst) for another .zst, (single, bz2) for another .bz2, and
\* for every other name it reports UnsupportedFormat and returns None.
C1_DispatchBySuffix ==
    (last.op # "none" /\ last.err # "SourceNotFound") =>
        LET doc == DocumentedFormat(lower(DispatchedName))
        IN  /\ last.archive_type = doc.archive_type
            /\ last.compression = doc.compression
            /\ (doc.archive_type = "none") <=> (last.err = "UnsupportedFormat")
            /\ (doc.archive_type = "none") => (last.ret = "None" /\ last.raised = "none")

\* C1 witness: an archive run dispatched a name with upper-case letters
\* that ends in .tar.zst to (tar, zst)
C1_Witness ==
    /\ last.op = "archive"
    /\ last.archive_type = "tar"
    /\ last.compression = "zst"
    /\ DispatchedName # lower(DispatchedName)

\* C2: archiving a file or a directory tree in any of the formats valid
\* for it and extracting the archive into a fresh directory leaves in
\* that directory the source's files, at the same relative paths and
\* with the same contents.
C2_RoundTrip ==
    (/\ prev.op = "archive" /\ Succeeded(prev)
     /\ last.op = "extract" /\ Succeeded(last)
     /\ last.a = prev.b
     /\ ~exists(fs_before, last.b)) =>
        TreeUnder(fs, last.b) = SourceTree(fs_before, prev.a)

\* C3: archive of a directory to a destination whose suffix selects the
\* raw container ends with DirectoryRequiresTar and None, passes no
\* progress value (no build, compress or write step is reached) and
\* leaves the file system, the destination included, as it was.
C3_DirectoryRequiresTar ==
    (/\ last.op = "archive"
     /\ is_dir(fs_before, last.a)
     /\ DocumentedFormat(lower(path_name(last.b))).archive_type = "single") =>
        /\ last.err = "DirectoryRequiresTar"
        /\ last.ret = "None"
        /\ last.raised = "none"
        /\ last.log = <<>>
        /\ fs = fs_before

\* C3 witness: a directory was archived with progress onto an existing .zst file
C3_Witness ==
    /\ last.op = "archive"
    /\ last.a = <<n_src>>
    /\ last.b = <<n_o_zst>>
    /\ last.progress
    /\ is_file(fs_before, last.b)
    /\ last.err = "DirectoryRequiresTar"

\* C4: archive and extract of a path that does not exist report
\* SourceNotFound whatever the suffix, return None and create nothing.
C4_SourceNotFound ==
    (last.op # "none" /\ ~exists(fs_before, last.a)) =>
        /\ last.err = "SourceNotFound"
        /\ last.ret = "None"
        /\ last.raised = "none"
        /\ fs = fs_before

\* C4 witness: extract of a missing archive with a supported suffix into
\* a directory that does not exist
C4_Witness ==
    /\ last.op = "extract"
    /\ ~exists(fs_before, last.a)
    /\ DocumentedFormat(lower(path_name(last.a))).archive_type = "tar"
    /\ ~exists(fs_before, last.b)
    /\ last.err = "SourceNotFound"

\* C5: no failure of archive or extract leaves the operation as an
\* exception: every failure is reported on the error stream and the
\* operation returns None.
C5_NoExceptionEscapes ==
    last.op # "none" => (last.raised = "none" /\ last.ret \in {"None", "elapsed"})

\* C6: a command that reports a failure leaves no output artifact: a
\* failed archive creates no destination file, a failed extract creates
\* no file or directory at or below its destination.
C6_NoArtifactOnFailure ==
    (last.op # "none" /\ last.err # "none") =>
        /\ last.op = "archive" => (exists(fs, last.b) => exists(fs_before, last.b))
        /\ last.op = "extract" => \A p \in DOMAIN fs : (IsPrefix(last.b, p) => p \in DOMAIN fs_before)

\* C7: in a successful run with progress display the values of current
\* passed to print_progress never decrease and the last pair has current
\* equal to total.
C7_ProgressMonotone ==
    (Succeeded(last) /\ last.progress /\ last.log # <<>>) =>
        /\ \A i \in 1..(Len(last.log) - 1) : last.log[i][1] <= last.log[i + 1][1]
        /\ last.log[Len(last.log)][1] = last.log[Len(last.log)][2]

\* C8: the archive written for a directory in either tar format holds
\* exactly one member per regular file of the tree, named by its path
\* relative to the source directory, with the file's contents.
C8_TarMembersRelative ==
    (/\ last.op = "archive" /\ Succeeded(last)
     /\ is_dir(fs_before, last.a)
     /\ last.archive_type = "tar") =>
        LET tar == MembersOf(fs[last.b].data, last.compression)
        IN  /\ tar.ok
            /\ Len(tar.members) = Cardinality(TreeUnder(fs_before, last.a))
            /\ {<<tar.members[i].name, tar.members[i].data>> : i \in 1..Len(tar.members)} = TreeUnder(fs_before, last.a)

C10_RawOutputName ==
    (last.op = "extract" /\ Succeeded(last) /\ last.archive_type = "single") =>
        LET name    == path_name(last.a)
            written == last.b \o <<SubSeq(name, 1, Len(name) - 4)>>
        IN  /\ path_name(written) # name
            /\ is_file(fs, written)
            /\ Touched \ Ancestors(last.b) \subseteq {written}

====
